---- MODULE Spec2Model ----
(***************************************************************************)
(* Model of hpc_helper/_hpc_helper.py: the command resolver, the Torque    *)
(* and Slurm argument encoders and the two job-submission builders.        *)
(*                                                                         *)
(* A Python str is a sequence of one-character strings, so that strip(),   *)
(* slicing and the substring test `in` are computed as Python computes     *)
(* them.  An Optional value is a record [some, val]; None has some=FALSE.  *)
(* kwargs is the sequence of its items in insertion order.                 *)
(*                                                                         *)
(* The hpc_status files are the one persistent state: hpc_status maps a    *)
(* folder to the text of its hpc_status file, None when there is no file.  *)
(***************************************************************************)
EXTENDS Integers, Sequences, FiniteSets, TLC

VARIABLES pc, call, result, hpc_status, status_call, written

callVars == <<pc, call, result>>
statusVars == <<hpc_status, status_call, written>>
vars == <<pc, call, result, hpc_status, status_call, written>>

(***************************************************************************)
(* Bounds of the explored inputs.                                          *)
(***************************************************************************)
MaxArgs == 3
MaxKwargs == 3
MaxBuildArgs == 2
MaxBuildKwargs == 1
MaxInjArgs == 2
MaxInjKwargs == 1
MaxDirList == 2

(***************************************************************************)
(* Python values.                                                          *)
(***************************************************************************)
None == [some |-> FALSE, val |-> <<>>]
Some(v) == [some |-> TRUE, val |-> v]

Whitespace == {" ", "\t", "\n"}

Digits == <<"0", "1", "2", "3", "4", "5", "6", "7", "8", "9">>

RECURSIVE IntStr(_)
\* str(n) / f"{n}" for an int n >= 0
IntStr(n) == IF n < 10 THEN <<Digits[n + 1]>>
             ELSE IntStr(n \div 10) \o <<Digits[(n % 10) + 1]>>

\* f"{x}" for an Optional[str]: the text of the string, or "None"
Fmt(x) == IF x.some THEN x.val ELSE <<"N", "o", "n", "e">>

RECURSIVE LStrip(_)
LStrip(s) == IF s # <<>> /\ Head(s) \in Whitespace THEN LStrip(Tail(s)) ELSE s

RECURSIVE RStrip(_)
RStrip(s) == IF s # <<>> /\ s[Len(s)] \in Whitespace
             THEN RStrip(SubSeq(s, 1, Len(s) - 1)) ELSE s

\* str.strip()
Strip(s) == RStrip(LStrip(s))

\* s[:-n]
DropLast(s, n) == IF Len(s) <= n THEN <<>> ELSE SubSeq(s, 1, Len(s) - n)

\* sub in s, for two str
IsSubstring(sub, s) ==
    \E i \in 0..(Len(s) - Len(sub)) : SubSeq(s, i + 1, i + Len(sub)) = sub

StartsWith(s, p) == Len(p) <= Len(s) /\ SubSeq(s, 1, Len(p)) = p

(***************************************************************************)
(* Outcomes of a call: a returned str, or the exception that left it.      *)
(***************************************************************************)
Ok(v) == [kind |-> "ok", value |-> v, warned |-> FALSE]
Raise(e) == [kind |-> e, value |-> <<>>, warned |-> FALSE]
NoResult == [kind |-> "pending", value |-> <<>>, warned |-> FALSE]

A100 == <<"a", "1", "0", "0">>
V100 == <<"v", "1", "0", "0">>

TARGET_SYSTEM == {"woody", "tinygpu", "tinyfat", "emmy", "meggie"}

\* Mutant: the Torque-unsupported list misses "tinyfat".
check_command_TorqueListShort(command, target_system) ==
    IF StartsWith(command, <<"q">>) /\ target_system \in {"meggie"}
    THEN Raise("AttributeError")
    ELSE IF StartsWith(command, <<"s">>) /\ target_system \in {"woody"}
    THEN Raise("AttributeError")
    ELSE IF target_system = "tinygpu"
    THEN Ok(command \o <<".", "t", "i", "n", "y", "g", "p", "u">>)
    ELSE Ok(command)

\* Mutant: every "tiny" cluster gets its own suffix, not only tinygpu.
check_command_SuffixTinyfat(command, target_system) ==
    IF StartsWith(command, <<"q">>) /\ target_system \in {"meggie", "tinyfat"}
    THEN Raise("AttributeError")
    ELSE IF StartsWith(command, <<"s">>) /\ target_system \in {"woody"}
    THEN Raise("AttributeError")
    ELSE IF target_system = "tinygpu"
    THEN Ok(command \o <<".", "t", "i", "n", "y", "g", "p", "u">>)
    ELSE IF target_system = "tinyfat"
    THEN Ok(command \o <<".", "t", "i", "n", "y", "f", "a", "t">>)
    ELSE Ok(command)

(***************************************************************************)
(* _check_command_for_target_system                                        *)
(***************************************************************************)
check_command_for_target_system(command, target_system) ==
    IF StartsWith(command, <<"q">>) /\ target_system \in {"meggie", "tinyfat"}
    THEN Raise("AttributeError")
    ELSE IF StartsWith(command, <<"s">>) /\ target_system \in {"woody"}
    THEN Raise("AttributeError")
    ELSE IF target_system = "tinygpu"
    THEN Ok(command \o <<".", "t", "i", "n", "y", "g", "p", "u">>)
    ELSE Ok(command)

(***************************************************************************)
(* The loops of the encoders.                                              *)
(***************************************************************************)
RECURSIVE AppendArgs_NoSeparator(_, _)
\* Mutant: the loop appends f"{arg}", without the space.
AppendArgs_NoSeparator(command_str, args) ==
    IF args = <<>> THEN command_str
    ELSE AppendArgs_NoSeparator(command_str \o Head(args), Tail(args))

RECURSIVE AppendArgs(_, _)
\* for arg in args: command_str += f"{arg} "
AppendArgs(command_str, args) ==
    IF args = <<>> THEN command_str
    ELSE AppendArgs(command_str \o Head(args) \o <<" ">>, Tail(args))

RECURSIVE AppendKwargsTorque(_, _)
\* for key, value in kwargs.items(): command_str += f"{key}={value},"
AppendKwargsTorque(command_str, kwargs) ==
    IF kwargs = <<>> THEN command_str
    ELSE AppendKwargsTorque(
             command_str \o Head(kwargs).key \o <<"=">> \o Head(kwargs).value \o <<",">>,
             Tail(kwargs))

RECURSIVE AppendKwargsSlurm(_, _)
\* for key, value in kwargs.items(): command_str += f'{key}="{value}",'
AppendKwargsSlurm(command_str, kwargs) ==
    IF kwargs = <<>> THEN command_str
    ELSE AppendKwargsSlurm(
             command_str \o Head(kwargs).key \o <<"=", "\"">> \o Head(kwargs).value
                 \o <<"\"", ",">>,
             Tail(kwargs))

\* Mutant: the closing `return command_str.strip()` returns command_str as it is.
add_arguments_torque_NoFinalStrip(command_str, args, kwargs) ==
    IF Len(kwargs) # 0 \/ args.some
    THEN LET c1 == command_str \o <<"-", "v", " ">>
             c2 == IF args.some
                   THEN Strip(AppendArgs(
                            c1 \o <<"P", "A", "R", "A", "M", "S", "=", "\"">>, args.val))
                        \o <<"\"", " ">>
                   ELSE c1
         IN  IF Len(kwargs) # 0
             THEN DropLast(AppendKwargsTorque(c2, kwargs), 1)
             ELSE c2
    ELSE command_str

(***************************************************************************)
(* _add_arguments_torque                                                   *)
(***************************************************************************)
add_arguments_torque(command_str, args, kwargs) ==
    IF Len(kwargs) # 0 \/ args.some
    THEN LET c1 == command_str \o <<"-", "v", " ">>
             c2 == IF args.some
                   THEN Strip(AppendArgs(
                            c1 \o <<"P", "A", "R", "A", "M", "S", "=", "\"">>, args.val))
                        \o <<"\"", " ">>
                   ELSE c1
             c3 == IF Len(kwargs) # 0
                   THEN DropLast(AppendKwargsTorque(c2, kwargs), 1)
                   ELSE c2
         IN  Strip(c3)
    ELSE Strip(command_str)

\* Mutant: the last comma is cut with [:-1] and the quote is added all the same.
add_arguments_slurm_CutOne(command_str, args, kwargs) ==
    IF Len(kwargs) # 0 \/ args.some
    THEN LET c1 == command_str \o <<"-", "-", "e", "x", "p", "o", "r", "t", "=">>
             c2 == IF args.some
                   THEN LET p == Strip(AppendArgs(
                                     c1 \o <<"P", "A", "R", "A", "M", "S", "=", "\"">>,
                                     args.val))
                                 \o <<"\"">>
                        IN  IF Len(kwargs) # 0 THEN p \o <<",">> ELSE p
                   ELSE c1
             c3 == IF Len(kwargs) # 0
                   THEN DropLast(AppendKwargsSlurm(c2, kwargs), 1) \o <<"\"">>
                   ELSE c2
         IN  Strip(c3)
    ELSE Strip(command_str)

(***************************************************************************)
(* _add_arguments_slurm                                                    *)
(***************************************************************************)
add_arguments_slurm(command_str, args, kwargs) ==
    IF Len(kwargs) # 0 \/ args.some
    THEN LET c1 == command_str \o <<"-", "-", "e", "x", "p", "o", "r", "t", "=">>
             c2 == IF args.some
                   THEN LET p == Strip(AppendArgs(
                                     c1 \o <<"P", "A", "R", "A", "M", "S", "=", "\"">>,
                                     args.val))
                                 \o <<"\"">>
                        IN  IF Len(kwargs) # 0 THEN p \o <<",">> ELSE p
                   ELSE c1
             c3 == IF Len(kwargs) # 0
                   THEN DropLast(AppendKwargsSlurm(c2, kwargs), 2) \o <<"\"">>
                   ELSE c2
         IN  Strip(c3)
    ELSE Strip(command_str)

(***************************************************************************)
(* build_job_submit_torque                                                 *)
(***************************************************************************)
build_job_submit_torque(job_name, script_name, target_system, nodes, ppn, walltime, args, kwargs) ==
    LET qsub == check_command_for_target_system(<<"q", "s", "u", "b">>, target_system)
        warned == (target_system = "tinygpu")
    IN  IF qsub.kind # "ok" THEN [qsub EXCEPT !.warned = warned]
        ELSE LET qsub_command ==
                     qsub.value \o <<" ", "-", "N", " ">> \o job_name
                     \o <<" ", "-", "l", " ", "n", "o", "d", "e", "s", "=">> \o IntStr(nodes)
                     \o <<":", "p", "p", "n", "=">> \o IntStr(ppn)
                     \o <<",", "w", "a", "l", "l", "t", "i", "m", "e", "=">> \o walltime
                     \o <<" ", "-", "m", " ", "a", "b", "e", " ">>
             IN  [Ok(add_arguments_torque(qsub_command, args, kwargs)
                     \o <<" ">> \o script_name)
                  EXCEPT !.warned = warned]

\* Mutant: only the a100 partition is cross-checked.
check_partition_slurm_OnlyA100(partition, gres) ==
    IF partition \in {A100}
    THEN IF ~gres.some THEN "TypeError"
         ELSE IF IsSubstring(partition, gres.val) THEN "ok"
         ELSE "AssertionError"
    ELSE "ok"

(***************************************************************************)
(* _check_partition_slurm: "ok", or the exception it raises                *)
(***************************************************************************)
check_partition_slurm(partition, gres) ==
    IF partition \in {V100, A100}
    THEN IF ~gres.some THEN "TypeError"
         ELSE IF IsSubstring(partition, gres.val) THEN "ok"
         ELSE "AssertionError"
    ELSE "ok"

\* Mutant: the partition flag is appended after the gres flag.
SlurmResourceFlags_PartitionLast(sbatch_command, target_system, nodes, tasks_per_node, gres, partition) ==
    LET c2 == IF target_system # "tinygpu"
              THEN sbatch_command
                   \o <<"-", "-", "n", "o", "d", "e", "s", "=">> \o IntStr(nodes)
                   \o <<" ", "-", "-", "n", "t", "a", "s", "k", "s", "-", "p", "e",
                        "r", "-", "n", "o", "d", "e", "=">>
                   \o IntStr(tasks_per_node) \o <<" ">>
              ELSE sbatch_command
        c3 == IF target_system = "tinygpu"
              THEN c2 \o <<"-", "-", "g", "r", "e", "s", "=">> \o Fmt(gres) \o <<" ">>
              ELSE c2
    IN  IF target_system = "tinygpu" /\ partition.some
        THEN c3 \o <<"-", "-", "p", "a", "r", "t", "i", "t", "i", "o", "n", "=">>
             \o partition.val \o <<" ">>
        ELSE c3

(***************************************************************************)
(* build_job_submit_slurm, the resource flags: the two `if target_system`  *)
(* blocks, appended to the command built so far.  The partition check has  *)
(* passed when this text is built.                                         *)
(***************************************************************************)
SlurmResourceFlags(sbatch_command, target_system, nodes, tasks_per_node, gres, partition) ==
    LET c2 == IF target_system # "tinygpu"
              THEN sbatch_command
                   \o <<"-", "-", "n", "o", "d", "e", "s", "=">> \o IntStr(nodes)
                   \o <<" ", "-", "-", "n", "t", "a", "s", "k", "s", "-", "p", "e",
                        "r", "-", "n", "o", "d", "e", "=">>
                   \o IntStr(tasks_per_node) \o <<" ">>
              ELSE sbatch_command
        c3 == IF target_system = "tinygpu" /\ partition.some
              THEN c2 \o <<"-", "-", "p", "a", "r", "t", "i", "t", "i", "o", "n", "=">>
                   \o partition.val \o <<" ">>
              ELSE c2
    IN  IF target_system = "tinygpu"
        THEN c3 \o <<"-", "-", "g", "r", "e", "s", "=">> \o Fmt(gres) \o <<" ">>
        ELSE c3

(***************************************************************************)
(* build_job_submit_slurm                                                  *)
(***************************************************************************)
build_job_submit_slurm(job_name, script_name, target_system, nodes, tasks_per_node, gres, partition, walltime, mail_type, args, kwargs) ==
    LET sbatch == check_command_for_target_system(
                      <<"s", "b", "a", "t", "c", "h">>, target_system)
        checked == IF target_system = "tinygpu" /\ partition.some
                   THEN check_partition_slurm(partition.val, gres)
                   ELSE "ok"
    IN  IF sbatch.kind # "ok" THEN sbatch
        ELSE IF checked # "ok" THEN Raise(checked)
        ELSE LET c1 == sbatch.value
                       \o <<" ", "-", "-", "j", "o", "b", "-", "n", "a", "m", "e", " ">>
                       \o job_name \o <<" ">>
                 c4 == SlurmResourceFlags(c1, target_system, nodes, tasks_per_node,
                                          gres, partition)
                 c5 == c4 \o <<"-", "-", "t", "i", "m", "e", "=">> \o walltime
                       \o <<" ", "-", "-", "m", "a", "i", "l", "-", "t", "y", "p", "e", "=">>
                       \o mail_type \o <<" ">>
             IN  Ok(add_arguments_slurm(c5, args, kwargs) \o <<" ">> \o script_name)

(***************************************************************************)
(* The inputs explored.                                                    *)
(***************************************************************************)
SeqsUpTo(S, n) == UNION {[1..k -> S] : k \in 0..n}

DistinctKeys(kw) == \A i, j \in 1..Len(kw) : kw[i].key = kw[j].key => i = j

ArgVals == {<<>>, <<"a">>, <<"b">>}
Keys == {<<"K">>, <<"L">>, <<"M">>}
KwVals == {<<>>, <<"v">>}

ArgsDomain == {None} \cup {Some(a) : a \in SeqsUpTo(ArgVals, MaxArgs)}
KwargsDomain ==
    {kw \in SeqsUpTo([key : Keys, value : KwVals], MaxKwargs) : DistinctKeys(kw)}

BuildArgVals == {<<>>, <<"a">>}
BuildKeys == {<<"K">>, <<"L">>}
BuildKwVals == {<<"v">>}

BuildArgsDomain == {None} \cup {Some(a) : a \in SeqsUpTo(BuildArgVals, MaxBuildArgs)}
BuildKwargsDomain ==
    {kw \in SeqsUpTo([key : BuildKeys, value : BuildKwVals], MaxBuildKwargs) :
        DistinctKeys(kw)}

Commands == {<<"q", "s", "u", "b">>, <<"q", "s", "t", "a", "t">>,
             <<"s", "b", "a", "t", "c", "h">>, <<"s", "q", "u", "e", "u", "e">>}
Prefixes == {<<>>, <<"c", "m", "d", " ">>}
JobNames == {<<"T", "e", "s", "t", "_", "J", "o", "b">>}
ScriptNames == {<<"j", "o", "b", "s", "c", "r", "i", "p", "t", ".", "s", "h">>}
NodeCounts == {1, 12}
PpnCounts == {4}
TaskCounts == {64}
Walltimes == {<<"2", "4", ":", "0", "0", ":", "0", "0">>}
MailTypes == {<<"A", "L", "L">>}
Partitions == {None, Some(A100), Some(V100),
               Some(<<"b", "r", "o", "a", "d", "w", "e", "l", "l", "2", "5", "6">>)}
GresValues == {None, Some(<<"g", "p", "u", ":", "1">>),
               Some(<<"g", "p", "u", ":", "a", "1", "0", "0", ":", "1">>),
               Some(<<"g", "p", "u", ":", "v", "1", "0", "0", ":", "4">>)}

\* A pending call: the operation and its arguments (fields an operation does not
\* take hold a fixed filler).
Call(op, command, target_system, job_name, script_name, nodes, per_node, gres, partition, walltime, mail_type, args, kwargs) ==
    [op |-> op, command |-> command, target_system |-> target_system,
     job_name |-> job_name, script_name |-> script_name, nodes |-> nodes,
     per_node |-> per_node, gres |-> gres, partition |-> partition,
     walltime |-> walltime, mail_type |-> mail_type, args |-> args, kwargs |-> kwargs]

ResolverCalls ==
    {Call("check_command_for_target_system", c, t, <<>>, <<>>, 0, 0, None, None,
          <<>>, <<>>, None, <<>>) : c \in Commands, t \in TARGET_SYSTEM}

EncoderCalls ==
    {Call(op, p, "woody", <<>>, <<>>, 0, 0, None, None, <<>>, <<>>, a, kw) :
        op \in {"add_arguments_torque", "add_arguments_slurm"},
        p \in Prefixes, a \in ArgsDomain, kw \in KwargsDomain}

TorqueCalls ==
    {Call("build_job_submit_torque", <<>>, t, j, s, n, ppn, None, None, w, <<>>, a, kw) :
        t \in TARGET_SYSTEM, j \in JobNames, s \in ScriptNames, n \in NodeCounts,
        ppn \in PpnCounts, w \in Walltimes, a \in BuildArgsDomain,
        kw \in BuildKwargsDomain}

SlurmCalls ==
    {Call("build_job_submit_slurm", <<>>, t, j, s, n, tpn, g, p, w, m, a, kw) :
        t \in TARGET_SYSTEM, j \in JobNames, s \in ScriptNames, n \in NodeCounts,
        tpn \in TaskCounts, g \in GresValues, p \in Partitions, w \in Walltimes,
        m \in MailTypes, a \in BuildArgsDomain, kw \in BuildKwargsDomain}

(***************************************************************************)
(* The state machine: a call is pending, then it has returned or raised.   *)
(***************************************************************************)
Folders == {"dir1", "dir2"}

\* no status-file operation has been called
NoStatusCall ==
    [op |-> "none", dirs |-> <<>>, exit_status |-> 0, kind |-> "ok",
     returned |-> FALSE, prev |-> [op |-> "none", dirs |-> <<>>]]

\* the status files play no part in the command builders
NoStatusFiles ==
    /\ hpc_status = [d \in Folders |-> None]
    /\ status_call = NoStatusCall
    /\ written = [d \in Folders |-> None]

Init ==
    /\ pc = "start"
    /\ call \in ResolverCalls \cup EncoderCalls \cup TorqueCalls \cup SlurmCalls
    /\ result = NoResult
    /\ NoStatusFiles

CheckCommandForTargetSystem ==
    /\ pc = "start"
    /\ call.op = "check_command_for_target_system"
    /\ result' = check_command_for_target_system(call.command, call.target_system)
    /\ pc' = "done"
    /\ UNCHANGED <<call, statusVars>>

AddArgumentsTorque ==
    /\ pc = "start"
    /\ call.op = "add_arguments_torque"
    /\ result' = Ok(add_arguments_torque(call.command, call.args, call.kwargs))
    /\ pc' = "done"
    /\ UNCHANGED <<call, statusVars>>

AddArgumentsSlurm ==
    /\ pc = "start"
    /\ call.op = "add_arguments_slurm"
    /\ result' = Ok(add_arguments_slurm(call.command, call.args, call.kwargs))
    /\ pc' = "done"
    /\ UNCHANGED <<call, statusVars>>

BuildJobSubmitTorque ==
    /\ pc = "start"
    /\ call.op = "build_job_submit_torque"
    /\ result' = build_job_submit_torque(call.job_name, call.script_name,
                     call.target_system, call.nodes, call.per_node, call.walltime,
                     call.args, call.kwargs)
    /\ pc' = "done"
    /\ UNCHANGED <<call, statusVars>>

BuildJobSubmitSlurm ==
    /\ pc = "start"
    /\ call.op = "build_job_submit_slurm"
    /\ result' = build_job_submit_slurm(call.job_name, call.script_name,
                     call.target_system, call.nodes, call.per_node, call.gres,
                     call.partition, call.walltime, call.mail_type, call.args,
                     call.kwargs)
    /\ pc' = "done"
    /\ UNCHANGED <<call, statusVars>>

Next ==
    \/ CheckCommandForTargetSystem
    \/ AddArgumentsTorque
    \/ AddArgumentsSlurm
    \/ BuildJobSubmitTorque
    \/ BuildJobSubmitSlurm

Spec == Init /\ [][Next]_vars

Done == pc = "done"

(***************************************************************************)
(* The hpc_status files.  A file is None (no file) or Some(text).          *)
(***************************************************************************)
\* str(n) for any int
StrInt(n) == IF n < 0 THEN <<"-">> \o IntStr(0 - n) ELSE IntStr(n)

DigitChars == {Digits[i] : i \in 1..10}
DigitVal(c) == (CHOOSE i \in 1..10 : Digits[i] = c) - 1

RECURSIVE DigitsVal(_)
DigitsVal(s) == IF s = <<>> THEN 0
                ELSE DigitsVal(SubSeq(s, 1, Len(s) - 1)) * 10 + DigitVal(s[Len(s)])

\* int(text): [ok, val]; ok is FALSE where Python raises ValueError
PyInt(text) ==
    LET t == Strip(text)
        signed == t # <<>> /\ Head(t) \in {"-", "+"}
        body == IF signed THEN Tail(t) ELSE t
        good == body # <<>> /\ \A i \in 1..Len(body) : body[i] \in DigitChars
    IN  [ok |-> good,
         val |-> IF ~good THEN 0
                 ELSE IF signed /\ Head(t) = "-" THEN 0 - DigitsVal(body)
                 ELSE DigitsVal(body)]

\* Path.touch(): an absent file is created empty, an existing one keeps its text
Touch(file) == IF file.some THEN file ELSE Some(<<>>)

\* Mutant: the comparison with 0 is lost; any written status counts as success.
check_hpc_status_file_AnyStatus(file) ==
    LET exit_status == Touch(file).val
    IN  [file |-> Touch(file), kind |-> "ok", returned |-> Len(exit_status) > 0]

\* Mutant: a read-only check, which answers False for an absent file.
check_hpc_status_file_NoTouch(file) ==
    LET exit_status == file.val
    IN  [file |-> file,
         kind |-> IF Len(exit_status) > 0 /\ ~PyInt(exit_status).ok
                  THEN "ValueError" ELSE "ok",
         returned |-> Len(exit_status) > 0 /\ PyInt(exit_status).ok
                      /\ PyInt(exit_status).val = 0]

\* check_hpc_status_file: the file it leaves, and what it returns (or raises)
check_hpc_status_file(file) ==
    LET exit_status == Touch(file).val
    IN  [file |-> Touch(file),
         kind |-> IF Len(exit_status) > 0 /\ ~PyInt(exit_status).ok
                  THEN "ValueError" ELSE "ok",
         returned |-> Len(exit_status) > 0 /\ PyInt(exit_status).ok
                      /\ PyInt(exit_status).val = 0]

\* write_hpc_status_file: the file it leaves
write_hpc_status_file(file, exit_status) == Some(StrInt(exit_status))

RECURSIVE cleanup_hpc_status_files(_, _)
\* cleanup_hpc_status_files: the files it leaves
cleanup_hpc_status_files(files, dir_list) ==
    IF dir_list = <<>> THEN files
    ELSE cleanup_hpc_status_files(
             [files EXCEPT ![Head(dir_list)] =
                  IF files[Head(dir_list)].some THEN None ELSE files[Head(dir_list)]],
             Tail(dir_list))

RECURSIVE Forget(_, _)
\* the record of the last write, with the folders of dir_list cleaned
Forget(w, dir_list) ==
    IF dir_list = <<>> THEN w
    ELSE Forget([w EXCEPT ![Head(dir_list)] = None], Tail(dir_list))

ExitStatuses == {0, 1, 0 - 1, 10}
DirLists == SeqsUpTo(Folders, MaxDirList)

Summary(c) == [op |-> c.op, dirs |-> c.dirs]

\* a folder holds no hpc_status file or an empty one; nothing written yet
InitStatus ==
    /\ pc = "start"
    /\ call = Call("none", <<>>, "woody", <<>>, <<>>, 0, 0, None, None, <<>>, <<>>,
                   None, <<>>)
    /\ result = NoResult
    /\ hpc_status \in [Folders -> {None, Some(<<>>)}]
    /\ status_call = NoStatusCall
    /\ written = [d \in Folders |-> None]

CheckHpcStatusFile ==
    \E d \in Folders :
        LET r == check_hpc_status_file(hpc_status[d])
        IN  /\ hpc_status' = [hpc_status EXCEPT ![d] = r.file]
            /\ status_call' = [op |-> "check", dirs |-> <<d>>, exit_status |-> 0,
                               kind |-> r.kind, returned |-> r.returned,
                               prev |-> Summary(status_call)]
            /\ UNCHANGED <<written, callVars>>

WriteHpcStatusFile ==
    \E d \in Folders, e \in ExitStatuses :
        /\ hpc_status' = [hpc_status EXCEPT ![d] = write_hpc_status_file(hpc_status[d], e)]
        /\ written' = [written EXCEPT ![d] = Some(e)]
        /\ status_call' = [op |-> "write", dirs |-> <<d>>, exit_status |-> e,
                           kind |-> "ok", returned |-> FALSE, prev |-> Summary(status_call)]
        /\ UNCHANGED callVars

CleanupHpcStatusFiles ==
    \E dir_list \in DirLists :
        /\ hpc_status' = cleanup_hpc_status_files(hpc_status, dir_list)
        /\ written' = Forget(written, dir_list)
        /\ status_call' = [op |-> "cleanup", dirs |-> dir_list, exit_status |-> 0,
                           kind |-> "ok", returned |-> FALSE, prev |-> Summary(status_call)]
        /\ UNCHANGED callVars

NextStatus ==
    \/ CheckHpcStatusFile
    \/ WriteHpcStatusFile
    \/ CleanupHpcStatusFiles

SpecStatus == InitStatus /\ [][NextStatus]_vars

(***************************************************************************)
(* The encoders alone, on a domain small enough to compare every pair of   *)
(* inputs: positional strings with an empty one and one that is two others *)
(* put together, and PARAMS among the names.                               *)
(***************************************************************************)
InjArgVals == {<<>>, <<"a">>, <<"a", "a">>}
InjKeys == {<<"K">>, <<"P", "A", "R", "A", "M", "S">>}
InjKwVals == {<<>>, <<"v">>}

InjArgsDomain == {None} \cup {Some(a) : a \in SeqsUpTo(InjArgVals, MaxInjArgs)}
InjKwargsDomain ==
    {kw \in SeqsUpTo([key : InjKeys, value : InjKwVals], MaxInjKwargs) : DistinctKeys(kw)}

InjCalls ==
    {Call(op, <<>>, "woody", <<>>, <<>>, 0, 0, None, None, <<>>, <<>>, a, kw) :
        op \in {"add_arguments_torque", "add_arguments_slurm"},
        a \in InjArgsDomain, kw \in InjKwargsDomain}

InitInj ==
    /\ pc = "start"
    /\ call \in InjCalls
    /\ result = NoResult
    /\ NoStatusFiles

NextInj ==
    \/ AddArgumentsTorque
    \/ AddArgumentsSlurm

SpecInj == InitInj /\ [][NextInj]_vars

(***************************************************************************)
(* Vocabulary of the properties.                                           *)
(***************************************************************************)
Space == <<" ">>
Comma == <<",">>
Quote == <<"\"">>
ParamsOpen == <<"P", "A", "R", "A", "M", "S", "=", "\"">>
TorqueFlag == <<"-", "v", " ">>
SlurmFlag == <<"-", "-", "e", "x", "p", "o", "r", "t", "=">>
Qsub == <<"q", "s", "u", "b">>
Sbatch == <<"s", "b", "a", "t", "c", "h">>
GpuSuffix == <<".", "t", "i", "n", "y", "g", "p", "u">>
DefaultGres == <<"g", "p", "u", ":", "1">>

EndsWith(s, p) == Len(p) <= Len(s) /\ SubSeq(s, Len(s) - Len(p) + 1, Len(s)) = p

Encoders == {"add_arguments_torque", "add_arguments_slurm"}
Builders == {"build_job_submit_torque", "build_job_submit_slurm"}

RECURSIVE JoinWith(_, _)
\* the strings of parts, with sep between neighbours
JoinWith(parts, sep) ==
    IF parts = <<>> THEN <<>>
    ELSE IF Len(parts) = 1 THEN parts[1]
    ELSE parts[1] \o sep \o JoinWith(Tail(parts), sep)

IsNonEmpty(a) == a # <<>>
NonEmptyArgs(args) == SelectSeq(args, IsNonEmpty)

RECURSIVE UpToQuote(_)
UpToQuote(s) == IF s = <<>> \/ Head(s) = "\"" THEN <<>>
                ELSE <<Head(s)>> \o UpToQuote(Tail(s))

HasParams(s) == IsSubstring(ParamsOpen, s)

\* the text between PARAMS=" and the quote that closes it
ParamsValue(s) ==
    LET i == CHOOSE k \in 1..Len(s) :
                 /\ SubSeq(s, k, k + Len(ParamsOpen) - 1) = ParamsOpen
                 /\ \A j \in 1..(k - 1) : SubSeq(s, j, j + Len(ParamsOpen) - 1) # ParamsOpen
    IN  UpToQuote(SubSeq(s, i + Len(ParamsOpen), Len(s)))

\* the fragment an encoder yields on its own
TorqueFragment(args, kwargs) == add_arguments_torque(<<>>, args, kwargs)
SlurmFragment(args, kwargs) == add_arguments_slurm(<<>>, args, kwargs)

OptField(f) == IF f = <<>> THEN <<>> ELSE <<f>>

C2_EmptyArgsContributeNothing ==
    (Done /\ call.op \in Encoders /\ call.args.some) =>
        /\ HasParams(result.value)
        /\ ParamsValue(result.value) = JoinWith(NonEmptyArgs(call.args.val), Space)

(***************************************************************************)
(* C3: with no named arguments and positional arguments that are absent,   *)
(* an empty list or only empty strings, the encoders append nothing and    *)
(* the built command holds no -v flag and no --export= flag.               *)
(***************************************************************************)
C3_NoFlagWithoutArguments ==
    (Done /\ call.kwargs = <<>>
          /\ (call.args.some => NonEmptyArgs(call.args.val) = <<>>)) =>
        /\ call.op \in Encoders => result.value = Strip(call.command)
        /\ (call.op \in Builders /\ result.kind = "ok") =>
               /\ ~IsSubstring(Space \o TorqueFlag, result.value)
               /\ ~IsSubstring(SlurmFlag, result.value)

(***************************************************************************)
(* C4: on tinygpu build_job_submit_slurm emits --gres=<gres>, and          *)
(* --gres=gpu:1 when gres is None; the text of None is never emitted.      *)
(***************************************************************************)
C4_GresDefault ==
    (Done /\ call.op = "build_job_submit_slurm" /\ call.target_system = "tinygpu"
          /\ result.kind = "ok") =>
        /\ IsSubstring(<<" ", "-", "-", "g", "r", "e", "s", "=">>
                           \o (IF call.gres.some THEN call.gres.val ELSE DefaultGres)
                           \o Space,
                       result.value)
        /\ ~IsSubstring(<<"N", "o", "n", "e">>, result.value)

(***************************************************************************)
(* C5: on tinygpu with a partition given, build_job_submit_slurm fails     *)
(* with the configuration error (the failed assert) exactly when the       *)
(* partition is a100 or v100 and gres is a string that does not contain    *)
(* it; with any other partition the call succeeds, whatever gres is, None  *)
(* included.  (a100 or v100 with gres None leaves by TypeError, which is   *)
(* not the configuration error.)                                           *)
(***************************************************************************)
C5_PartitionCheck ==
    (Done /\ call.op = "build_job_submit_slurm" /\ call.target_system = "tinygpu"
          /\ call.partition.some) =>
        /\ result.kind = "AssertionError"
               <=> /\ call.partition.val \in {A100, V100}
                   /\ call.gres.some
                   /\ ~IsSubstring(call.partition.val, call.gres.val)
        /\ call.partition.val \notin {A100, V100} => result.kind = "ok"

C5_Witness ==
    /\ Done
    /\ call.op = "build_job_submit_slurm"
    /\ call.target_system = "tinygpu"
    /\ call.partition = Some(V100)
    /\ call.gres.some
    /\ ~IsSubstring(V100, call.gres.val)
    /\ result.kind = "AssertionError"

(***************************************************************************)
(* C6: on a supported target the Torque command is, joined by single       *)
(* spaces and in this order: the resolved binary name, -N <jobName>,       *)
(* -l nodes=<nodes>:ppn=<ppn>,walltime=<walltime>, -m abe, the Torque      *)
(* fragment unless it is empty, the script name; it has no leading or      *)
(* trailing whitespace.                                                    *)
(***************************************************************************)
TorqueFields(c) ==
    <<(IF c.target_system = "tinygpu" THEN Qsub \o GpuSuffix ELSE Qsub),
      <<"-", "N", " ">> \o c.job_name,
      <<"-", "l", " ", "n", "o", "d", "e", "s", "=">> \o IntStr(c.nodes)
          \o <<":", "p", "p", "n", "=">> \o IntStr(c.per_node)
          \o <<",", "w", "a", "l", "l", "t", "i", "m", "e", "=">> \o c.walltime,
      <<"-", "m", " ", "a", "b", "e">>>>
    \o OptField(TorqueFragment(c.args, c.kwargs))
    \o <<c.script_name>>

C6_TorqueCommandLayout ==
    (Done /\ call.op = "build_job_submit_torque" /\ result.kind = "ok") =>
        /\ result.value = JoinWith(TorqueFields(call), Space)
        /\ result.value = Strip(result.value)

C6_Witness ==
    /\ Done
    /\ call.op = "build_job_submit_torque"
    /\ result.kind = "ok"
    /\ ~call.args.some
    /\ call.kwargs = <<>>
    /\ result.value = JoinWith(TorqueFields(call), Space)

(***************************************************************************)
(* C7: on a supported target the Slurm command is, in this order: the      *)
(* resolved binary name, --job-name <jobName>, the resource flags,         *)
(* --time=<walltime> --mail-type=<mailType>, the --export= fragment unless *)
(* it is empty, the script name.  The resource flags are --nodes=<nodes>   *)
(* --ntasks-per-node=<tasksPerNode> off tinygpu, and on tinygpu            *)
(* --gres=<gres> alone, with --partition=<partition> right before it when  *)
(* a partition is given.  (<gres> is a given gres string; C4 is about      *)
(* gres None.)                                                             *)
(***************************************************************************)
SlurmResourceFields(c) ==
    IF c.target_system # "tinygpu"
    THEN <<<<"-", "-", "n", "o", "d", "e", "s", "=">> \o IntStr(c.nodes),
           <<"-", "-", "n", "t", "a", "s", "k", "s", "-", "p", "e", "r", "-", "n", "o",
             "d", "e", "=">> \o IntStr(c.per_node)>>
    ELSE (IF c.partition.some
          THEN <<<<"-", "-", "p", "a", "r", "t", "i", "t", "i", "o", "n", "=">>
                     \o c.partition.val>>
          ELSE <<>>)
         \o <<<<"-", "-", "g", "r", "e", "s", "=">> \o c.gres.val>>

SlurmFields(c) ==
    <<(IF c.target_system = "tinygpu" THEN Sbatch \o GpuSuffix ELSE Sbatch),
      <<"-", "-", "j", "o", "b", "-", "n", "a", "m", "e", " ">> \o c.job_name>>
    \o SlurmResourceFields(c)
    \o <<<<"-", "-", "t", "i", "m", "e", "=">> \o c.walltime,
         <<"-", "-", "m", "a", "i", "l", "-", "t", "y", "p", "e", "=">> \o c.mail_type>>
    \o OptField(SlurmFragment(c.args, c.kwargs))
    \o <<c.script_name>>

TorqueEntry(e) == e.key \o <<"=">> \o e.value
SlurmEntry(e) == e.key \o <<"=">> \o Quote \o e.value \o Quote

NamedTorque(kwargs) == JoinWith([i \in 1..Len(kwargs) |-> TorqueEntry(kwargs[i])], Comma)
NamedSlurm(kwargs) == JoinWith([i \in 1..Len(kwargs) |-> SlurmEntry(kwargs[i])], Comma)

\* s is head, then a text without a quote, then tail
Encloses(s, head, tail) ==
    /\ Len(s) >= Len(head) + Len(tail)
    /\ StartsWith(s, head)
    /\ EndsWith(s, tail)
    /\ \A i \in (Len(head) + 1)..(Len(s) - Len(tail)) : s[i] # "\""

NamedLayout(s, prefix, flag, args, named, sep) ==
    IF args.some
    THEN Encloses(s, prefix \o flag \o ParamsOpen, Quote \o sep \o named)
    ELSE s = prefix \o flag \o named

C8_NamedArguments ==
    (Done /\ call.op \in Encoders /\ call.kwargs # <<>>) =>
        IF call.op = "add_arguments_torque"
        THEN NamedLayout(result.value, call.command, TorqueFlag, call.args,
                         NamedTorque(call.kwargs), Space)
        ELSE NamedLayout(result.value, call.command, SlurmFlag, call.args,
                         NamedSlurm(call.kwargs), Comma)

C8_Witness ==
    /\ Done
    /\ call.op = "add_arguments_slurm"
    /\ Len(call.kwargs) = 3
    /\ call.args.some
    /\ call.args.val # <<>>
    /\ EndsWith(result.value, Quote \o Comma \o NamedSlurm(call.kwargs))

C10_TinyfatCommand ==
    (Done /\ call.op = "build_job_submit_slurm" /\ call.target_system = "tinyfat"
          /\ result.kind = "ok") =>
        StartsWith(result.value,
            Sbatch \o <<".", "t", "i", "n", "y", "f", "a", "t">>
            \o <<" ", "-", "-", "j", "o", "b", "-", "n", "a", "m", "e", " ">> \o call.job_name
            \o <<" ", "-", "-", "n", "o", "d", "e", "s", "=">> \o IntStr(call.nodes)
            \o <<" ", "-", "-", "n", "t", "a", "s", "k", "s", "-", "p", "e", "r", "-", "n",
                 "o", "d", "e", "=">> \o IntStr(call.per_node)
            \o (IF call.partition.some THEN <<" ", "-", "p", " ">> \o call.partition.val
                ELSE <<>>)
            \o <<" ", "-", "-", "t", "i", "m", "e", "=">>)

(***************************************************************************)
(* C11: each encoder is injective: two different non-empty (positional     *)
(* list, named mapping) inputs never yield the same fragment.              *)
(***************************************************************************)
Input(a, kw) == [args |-> a, kwargs |-> kw]
InjInputs == {Input(a, kw) : a \in InjArgsDomain, kw \in InjKwargsDomain}

\* at least one positional or one named argument
NonEmptyInput(i) == (i.args.some /\ i.args.val # <<>>) \/ i.kwargs # <<>>

Encode(op, i) ==
    IF op = "add_arguments_torque"
    THEN add_arguments_torque(<<>>, i.args, i.kwargs)
    ELSE add_arguments_slurm(<<>>, i.args, i.kwargs)

C11_Injective ==
    (Done /\ call.op \in Encoders /\ NonEmptyInput(Input(call.args, call.kwargs))) =>
        \A j \in InjInputs :
            (NonEmptyInput(j) /\ j # Input(call.args, call.kwargs))
                => Encode(call.op, j) # result.value

(***************************************************************************)
(* C11 as amended: each encoder is injective on the non-empty inputs that  *)
(* hold no empty positional string and no named argument called PARAMS.    *)
(***************************************************************************)
PlainInput(i) ==
    /\ i.args.some => \A k \in 1..Len(i.args.val) : i.args.val[k] # <<>>
    /\ \A k \in 1..Len(i.kwargs) : i.kwargs[k].key # <<"P", "A", "R", "A", "M", "S">>

C11_InjectiveOnPlainInputs ==
    (Done /\ call.op \in Encoders /\ NonEmptyInput(Input(call.args, call.kwargs))
          /\ PlainInput(Input(call.args, call.kwargs))) =>
        \A j \in InjInputs :
            (NonEmptyInput(j) /\ PlainInput(j) /\ j # Input(call.args, call.kwargs))
                => Encode(call.op, j) # result.value

C11_Witness ==
    /\ Done
    /\ call.op = "add_arguments_slurm"
    /\ call.args = Some(<<<<"a", "a">>, <<"a">>>>)
    /\ call.kwargs # <<>>
    /\ PlainInput(Input(call.args, call.kwargs))
    /\ result.value = Encode(call.op, Input(call.args, call.kwargs))

(***************************************************************************)
(* C12: after any sequence of writes, checks and cleanups,                 *)
(* check_hpc_status_file returns True exactly when the most recent write   *)
(* to the folder since its last cleanup (or since the start) wrote exit    *)
(* status 0; so it returns False for an absent file, an empty file, a file *)
(* removed by cleanup and a last written status other than 0.              *)
(***************************************************************************)
Checked == status_call.op = "check"
CheckedDir == status_call.dirs[1]

C12_StatusProtocol ==
    Checked =>
        /\ status_call.kind = "ok"
        /\ status_call.returned
               <=> (written[CheckedDir].some /\ written[CheckedDir].val = 0)

C12_Witness ==
    /\ Checked
    /\ status_call.returned
    /\ status_call.prev.op = "write"
    /\ written[CheckedDir] = Some(0)
    /\ \E d \in Folders : written[d].some /\ written[d].val # 0

(***************************************************************************)
(* C13: check_hpc_status_file is no read-only query: it leaves the text of *)
(* an existing hpc_status file (of any folder) as it was, it creates an    *)
(* empty file where there was none, and after every check the file of the  *)
(* checked folder exists, also when cleanup has just removed it.           *)
(***************************************************************************)
CheckStep ==
    /\ status_call'.op = "check"
    /\ status_call'.prev = Summary(status_call)

CheckEffect ==
    LET d == status_call'.dirs[1]
    IN  /\ hpc_status'[d].some
        /\ ~hpc_status[d].some => hpc_status'[d] = Some(<<>>)
        /\ \A f \in Folders : hpc_status[f].some => hpc_status'[f] = hpc_status[f]
        /\ \A f \in Folders \ {d} : hpc_status'[f] = hpc_status[f]

C13_CheckCreatesTheFile ==
    /\ [](Checked => hpc_status[CheckedDir].some)
    /\ [][CheckStep => CheckEffect]_vars

C13_Witness ==
    /\ Checked
    /\ status_call.prev.op = "cleanup"
    /\ \E i \in 1..Len(status_call.prev.dirs) : status_call.prev.dirs[i] = CheckedDir
    /\ hpc_status[CheckedDir] = Some(<<>>)

====
